---- MODULE Spec2Model ----
(***************************************************************************)
(* Model of the SLM printer log monitor: main() acquires the camera        *)
(* (CameraController), LogMonitor.monitor() reads the existing log, starts *)
(* the watchdog observer whose thread runs check_for_updates() on every    *)
(* notification, and a deposition line triggers a pair of captures.        *)
(*                                                                         *)
(* The log file is a sequence of tokens: the words of a line (separated by *)
(* one space in the file) and the line terminator NL.  Offsets count       *)
(* tokens.  The printer controller writes a line in one write or in two    *)
(* (a prefix, then the remainder), split at a word boundary.               *)
(*                                                                         *)
(* Two main() functions exist.  Both build the CameraController in a with  *)
(* block, construct the LogMonitor and call monitor().  The call in        *)
(* src/main.py passes the parameters of LogMonitor.__init__ of             *)
(* src/src/log_monitor.py; the call in src/src/main.py passes encoding as  *)
(* well, which that constructor rejects with TypeError.  mainFile says     *)
(* which of the two runs.                                                  *)
(*                                                                         *)
(* The camera SDK is outside the repository: create_device finds devices   *)
(* or not, a capture succeeds or fails in start_stream, get_buffer or the  *)
(* save, and stop_stream on a destroyed device raises or not.              *)
(*                                                                         *)
(* Six specifications share the actions.  Spec is the whole program.       *)
(* SpecWatch is one monitoring session on a log that is only appended to   *)
(* and may receive bytes that are not valid UTF-8; it counts the calls     *)
(* on_modified makes.  SpecCatchUp is _process_existing_log on a log that  *)
(* already holds lines (malformed layer lines, lines with both markers,    *)
(* undecodable bytes), read in buffers that end at any line end.           *)
(* SpecNotify is a session in which other files of the watched directory   *)
(* raise notifications too; it records the file the previous read left.    *)
(* SpecCamera is the program on a log of deposition lines and follows what *)
(* each capture_image call does to the stream and to self.buffer; the      *)
(* other specifications leave those variables alone.                       *)
(* SpecPolling is the older program in src/log_monitor.py, whose monitor() *)
(* reads the log in a loop on the main thread.                             *)
(***************************************************************************)
EXTENDS Integers, Sequences, FiniteSets, TLC

\* ---------------------------------------------------------------- bounds
MaxLines == 2          \* lines the printer controller writes in one run
RetryAttempts == 2     \* the configured camera.retry_attempts
MaxPending == 1        \* notifications the observer's queue holds in the model
MaxTruncations == 1    \* times the log is truncated in one run

\* ------------------------------------------------------------- vocabulary
NL == "\n"
\* The Cyrillic markers and directory names of the source, transliterated.
LayerToken == "Prozhig"
PowderToken == "Otsypka"
PowderDir == "Otsypka"
StartDir == "Start"

\* int(): the numerals that occur in the modelled logs and their values
IntOf == [s \in {"-2", "5", "7"} |-> IF s = "-2" THEN -2 ELSE IF s = "5" THEN 5 ELSE 7]
Numerals == DOMAIN IntOf

LayerLine(n) == <<"t", "w", n, LayerToken, NL>>
PowderLine == <<"t", PowderToken, NL>>
OtherLine == <<"t", NL>>

\* the lines the printer controller may write
LogLines == {LayerLine(n) : n \in {"-2", "5"}} \cup {PowderLine, OtherLine}

\* exit statuses
Running == "running"                  \* main has not ended yet
ExitOk == "return 0"
ExitError == "return 1"
ExitInterrupted == "KeyboardInterrupt"  \* main ended by the uncaught signal

\* ----------------------------------------------------------------- state
VARIABLES
    mainFile,        \* which main() runs: "src/main.py" or "src/src/main.py"
    pcMain,          \* position of the main thread
    pendingExc,      \* exception propagating in the main thread ("none" if none)
    exitStatus,      \* exit status of the process; Running until main is over
    retry_attempts,  \* CameraController.retry_attempts
    attempt,         \* loop variable of _create_device_with_retries
    createResults,   \* results of system.create_device(), in call order
    warnings,        \* "Connection failed, retrying" warnings logged
    countdowns,      \* _countdown(retry_delay) waits made
    selectCalls,     \* system.select_device calls
    device,          \* CameraController.device is set (truthy)
    destroyCalls,    \* system.destroy_device calls
    opsAfterRelease, \* device operations invoked after the device was destroyed
    cleanupCalls,    \* CameraController.cleanup calls
    file,            \* contents of the log file
    fileExists,      \* the log file exists
    wpend,           \* remainder of a line whose first part has been written
    nWritten,        \* lines written so far
    nTrunc,          \* truncations so far
    last_position,   \* LogMonitor.last_position
    last_layer,      \* LogMonitor.last_layer
    observer,        \* LogMonitor.observer: "none", "running", "stopped", "joined"
    pending,         \* notifications queued for the observer thread
    rdWho,           \* thread executing a read: "none", "main", "obs"
    rdPc,            \* position inside the read: "iter", "cap1", "sleep", "cap2"
    current_layer,   \* local of _handle_powder_event
    fpos,            \* offset of the open file object in the file
    buf,             \* tokens read from the file and not yet returned as a line
    enc,             \* encoding the open file object decodes with
    fallback,        \* the read runs inside "except UnicodeDecodeError"
    processed,       \* lines passed to _process_line, in order
    camLog,          \* capture_image calls and capture_delay sleeps, in order
    evt,             \* the latest deposition line handled by _process_line
    everParsed,      \* a layer line has been parsed successfully
    lastPoll,        \* the latest check_for_updates call
    logMissing,      \* the initial read of monitor() found no log file
    retryAt,         \* Len(processed) and Len(camLog) when the latest fallback began
    calls,           \* callback() calls made by on_modified
    prevSnap,        \* the file as the read before the latest poll left it
    buffer,          \* CameraController.buffer: 0 for None, else the buffer's number
    buffersGot,      \* buffers device.get_buffer() has returned (numbered 1, 2, ...)
    requeued,        \* the buffers passed to device.requeue_buffer, in call order
    streaming,       \* the device stream is started
    saved,           \* images Writer.save has written
    usedDevices      \* the device handles capture_image calls have used

vars == <<mainFile, pcMain, pendingExc, exitStatus, retry_attempts, attempt,
          createResults, warnings, countdowns, selectCalls, device,
          destroyCalls, opsAfterRelease, cleanupCalls, file, fileExists,
          wpend, nWritten, nTrunc, last_position, last_layer, observer,
          pending, rdWho, rdPc, current_layer, fpos, buf, enc, fallback,
          processed, camLog, evt, everParsed, lastPoll, logMissing, retryAt,
          calls, prevSnap, buffer, buffersGot, requeued, streaming, saved, usedDevices>>

camVars == <<retry_attempts, attempt, createResults, warnings, countdowns,
             selectCalls, device, destroyCalls, opsAfterRelease, cleanupCalls>>
envVars == <<file, fileExists, wpend, nWritten, nTrunc>>
monVars == <<last_position, last_layer>>
rdVars == <<rdWho, rdPc, current_layer, fpos, buf, enc, fallback>>
sdkVars == <<buffer, buffersGot, requeued, streaming, saved, usedDevices>>
histVars == <<processed, camLog, evt, everParsed, lastPoll, logMissing, retryAt,
              calls, prevSnap>>

\* evt: seen - a deposition line was handled; done - its handling is over;
\* known - a layer line had been parsed before it; n - last_layer when it was
\* handled; dirs - the target directories could be created; log - the
\* capture_image calls and sleeps made for it
NoEvt == [seen |-> FALSE, done |-> FALSE, known |-> FALSE, n |-> -1,
          dirs |-> TRUE, log |-> <<>>]
\* lastPoll: seen - a check_for_updates call was made; done - it is over;
\* trunc - the file was shorter than last_position when it opened the file;
\* missing - open() raised FileNotFoundError; start - last_position at that
\* time; delivered - the lines it passed to _process_line; snapshot - the
\* file when it ended
NoPoll == [seen |-> FALSE, done |-> FALSE, trunc |-> FALSE, missing |-> FALSE,
           start |-> 0, delivered |-> <<>>, snapshot |-> <<>>]
\* retryAt before any fallback
NoRetry == [seen |-> FALSE, proc |-> 0, cam |-> 0]

\* main() is entered: nothing is constructed yet and no step was taken
Unstarted ==
    /\ pcMain = "init_camera"
    /\ pendingExc = "none"
    /\ exitStatus = Running
    /\ retry_attempts = RetryAttempts
    /\ attempt = 0
    /\ createResults = <<>>
    /\ warnings = 0
    /\ countdowns = 0
    /\ selectCalls = 0
    /\ device = FALSE
    /\ destroyCalls = 0
    /\ opsAfterRelease = 0
    /\ cleanupCalls = 0
    /\ wpend = <<>>
    /\ nWritten = 0
    /\ nTrunc = 0
    /\ last_position = 0
    /\ last_layer = -1
    /\ observer = "none"
    /\ pending = 0
    /\ rdWho = "none"
    /\ rdPc = "iter"
    /\ current_layer = 0
    /\ fpos = 0
    /\ buf = <<>>
    /\ enc = "utf-8"
    /\ fallback = FALSE
    /\ processed = <<>>
    /\ camLog = <<>>
    /\ evt = NoEvt
    /\ everParsed = FALSE
    /\ lastPoll = NoPoll
    /\ logMissing = FALSE
    /\ retryAt = NoRetry
    /\ calls = 0
    /\ prevSnap = <<>>
    /\ buffer = 0
    /\ buffersGot = 0
    /\ requeued = <<>>
    /\ streaming = FALSE
    /\ saved = 0
    /\ usedDevices = {}

Init ==
    /\ mainFile \in {"src/main.py", "src/src/main.py"}
    /\ file = <<>>
    /\ fileExists \in BOOLEAN
    /\ Unstarted

\* ------------------------------------------------- CameraController
\* variant: the loop stops one attempt early
AttemptsRemain_OneLess(done, attempts) == done < attempts - 1

\* range(self.retry_attempts): the loop runs another iteration
AttemptsRemain(done, attempts) == done < attempts

\* variant: the warning of the last-but-one attempt is left out
ShouldRetry_OneLess(current_attempt, attempts) == current_attempt + 1 < attempts

\* "if current_attempt < self.retry_attempts": warn and wait before retrying
ShouldRetry(current_attempt, attempts) == current_attempt < attempts

\* _create_device_with_retries: one iteration of the loop; found is the
\* truth value of what system.create_device() returned
CreateDeviceAttempt(found) ==
    /\ pcMain = "init_camera"
    /\ AttemptsRemain(attempt, retry_attempts)
    /\ attempt' = attempt + 1
    /\ createResults' = Append(createResults, found)
    /\ IF found
         THEN /\ pcMain' = "select"
              /\ UNCHANGED <<warnings, countdowns>>
         ELSE /\ pcMain' = "init_camera"
              /\ IF ShouldRetry(attempt + 1, retry_attempts)
                   THEN /\ warnings' = warnings + 1
                        /\ countdowns' = countdowns + 1
                   ELSE UNCHANGED <<warnings, countdowns>>
    /\ UNCHANGED <<mainFile, pendingExc, exitStatus, retry_attempts,
                   selectCalls, device, destroyCalls, opsAfterRelease,
                   cleanupCalls, observer, pending>>
    /\ UNCHANGED <<envVars, monVars, rdVars, histVars>>
    /\ UNCHANGED sdkVars

\* _create_device_with_retries returns None after the loop; _initialize_camera
\* raises RuntimeError, the constructor raises, main() returns 1
CreateDeviceExhausted ==
    /\ pcMain = "init_camera"
    /\ ~AttemptsRemain(attempt, retry_attempts)
    /\ pcMain' = "done"
    /\ pendingExc' = "RuntimeError"
    /\ exitStatus' = ExitError
    /\ UNCHANGED <<mainFile, observer, pending>>
    /\ UNCHANGED <<camVars, envVars, monVars, rdVars, histVars>>
    /\ UNCHANGED sdkVars

\* _initialize_camera after devices were found: select_device and
\* _configure_stream_settings; then __enter__ returns self
SelectDevice ==
    /\ pcMain = "select"
    /\ device' = TRUE
    /\ selectCalls' = selectCalls + 1
    /\ pcMain' = "ctor_monitor"
    /\ UNCHANGED <<mainFile, pendingExc, exitStatus, retry_attempts, attempt,
                   createResults, warnings, countdowns, destroyCalls,
                   opsAfterRelease, cleanupCalls, observer, pending>>
    /\ UNCHANGED <<envVars, monVars, rdVars, histVars>>
    /\ UNCHANGED sdkVars

\* CameraController.cleanup; stopRaises: device.stop_stream() raises, which
\* only a device that was already destroyed does in the model
CleanupEffect(stopRaises) ==
    /\ cleanupCalls' = cleanupCalls + 1
    /\ IF device
         THEN IF destroyCalls > 0 /\ stopRaises
                THEN /\ opsAfterRelease' = opsAfterRelease + 1
                     /\ UNCHANGED destroyCalls
                ELSE /\ destroyCalls' = destroyCalls + 1
                     /\ opsAfterRelease' =
                          IF destroyCalls > 0 THEN opsAfterRelease + 2
                                              ELSE opsAfterRelease
         ELSE UNCHANGED <<destroyCalls, opsAfterRelease>>
    /\ streaming' = IF device /\ ~(destroyCalls > 0 /\ stopRaises) THEN FALSE ELSE streaming
    /\ UNCHANGED <<retry_attempts, attempt, createResults, warnings,
                   countdowns, selectCalls, device>>
    /\ UNCHANGED <<buffer, buffersGot, requeued, saved, usedDevices>>

\* ------------------------------------------------- reading lines
HasNL(s) == \E i \in 1..Len(s) : s[i] = NL
FirstNL(s) == CHOOSE i \in 1..Len(s) : s[i] = NL /\ \A j \in 1..(i - 1) : s[j] # NL
Contains(line, tok) == \E i \in 1..Len(line) : line[i] = tok
Min(a, b) == IF a <= b THEN a ELSE b
\* the text made of the lines ls
RECURSIVE Concat(_)
Concat(ls) == IF ls = <<>> THEN <<>> ELSE Head(ls) \o Concat(Tail(ls))

\* bytes that are not valid UTF-8
BadBytes == "0xFF"
\* the text a token of the file decodes to.  latin1 maps every byte to one
\* character below U+0100, so the UTF-8 bytes of a Cyrillic marker decode to
\* other characters than the marker; ASCII text decodes to itself.
Latin1Of(tok) ==
    IF tok = LayerToken THEN "Prozhig read as latin1"
    ELSE IF tok = PowderToken THEN "Otsypka read as latin1"
    ELSE tok
Decode(text, e) ==
    [i \in 1..Len(text) |-> IF e = "latin1" THEN Latin1Of(text[i]) ELSE text[i]]
\* decoding the bytes raises UnicodeDecodeError
Undecodable(bytes, e) == e = "utf-8" /\ Contains(bytes, BadBytes)

\* one read of the file at offset pos: at most limit tokens, up to the end of
\* the file (nothing when pos is at or beyond the end)
ReadChunk(f, pos, limit) ==
    IF pos < Len(f) THEN SubSeq(f, pos + 1, Min(Len(f), pos + limit)) ELSE <<>>
\* the offset of the file object after that read
AfterRead(f, pos, limit) == pos + Len(ReadChunk(f, pos, limit))

\* "for line in f": the file is read again only when the buffered text holds
\* no terminator
Refills(b) == ~HasNL(b)
\* the next line: up to and including the first terminator, or, at the end
\* of the file, the trailing text that has no terminator
NextLine(data) == IF HasNL(data) THEN SubSeq(data, 1, FirstNL(data)) ELSE data

\* ------------------------------------------------- _process_line
\* line.split(" "): the words of the line
Fields(line) == SelectSeq(line, LAMBDA t : t # NL)
\* int(line.split(" ")[2]) raises neither IndexError nor ValueError
ParsesLayer(line) == Len(Fields(line)) >= 3 /\ Fields(line)[3] \in Numerals
ParsedLayer(line) == IntOf[Fields(line)[3]]
\* variant: the deposition marker is looked for first
LineKind_PowderFirst(line) ==
    IF Contains(line, PowderToken) THEN "powder"
    ELSE IF Contains(line, LayerToken) THEN "layer"
    ELSE "other"

\* the branch _process_line takes
LineKind(line) ==
    IF Contains(line, LayerToken) THEN "layer"
    ELSE IF Contains(line, PowderToken) THEN "powder"
    ELSE "other"
\* variant: a layer that is known is kept until a deposition line has used it
LayerAfter_KeepKnown(line, layer) ==
    IF ParsesLayer(line) /\ layer = -1 THEN ParsedLayer(line) ELSE layer
\* variant: a layer line that cannot be parsed resets last_layer
LayerAfter_Reset(line, layer) == IF ParsesLayer(line) THEN ParsedLayer(line) ELSE -1

\* last_layer after _handle_layer_change(line): the assignment is not made
\* when int(...) raised
LayerAfter(line, layer) == IF ParsesLayer(line) THEN ParsedLayer(line) ELSE layer

\* variant: handling a deposition line forgets the layer
LayerAfterEvent_Cleared(layer) == -1

\* last_layer after _handle_powder_event: the method reads self.last_layer
\* and assigns nothing to it
LayerAfterEvent(layer) == layer

\* "if self.last_layer < -1": the deposition event is dropped
InvalidLayer(layer) == layer < -1
\* variant: the captures are labelled with the layer that was burnt last
NextLayer_Same(layer) == layer

\* "current_layer = self.last_layer + 1"
NextLayer(layer) == layer + 1

\* capture_image: what the device does during one call
CaptureOutcomes == {"ok", "save_fails", "start_stream_fails", "get_buffer_fails"}
\* capture_image returns True unless start_stream or get_buffer raised
\* (_save_image swallows its own errors)
CaptureImageReturn(o) == o \in {"ok", "save_fails"}

CamEntry(dir, layer, ok) == [op |-> "capture", dir |-> dir, layer |-> layer, ok |-> ok]
SleepEntry == [op |-> "sleep", dir |-> "", layer |-> 0, ok |-> TRUE]

\* _process_line(line); dirsOk: the two mkdir calls of _handle_powder_event
\* succeed.  Every exception is caught and logged by _process_line.
ProcessLine(line, dirsOk) ==
    IF LineKind(line) = "layer"
      THEN /\ last_layer' = LayerAfter(line, last_layer)
           /\ everParsed' = (everParsed \/ ParsesLayer(line))
           /\ UNCHANGED <<rdPc, current_layer, camLog, evt>>
    ELSE IF LineKind(line) = "powder"
      THEN /\ last_layer' = LayerAfterEvent(last_layer)
           /\ UNCHANGED <<everParsed, camLog>>
           /\ IF InvalidLayer(last_layer)
                THEN /\ evt' = [seen |-> TRUE, done |-> TRUE, known |-> everParsed,
                                n |-> last_layer, dirs |-> TRUE, log |-> <<>>]
                     /\ UNCHANGED <<rdPc, current_layer>>
                ELSE /\ current_layer' = NextLayer(last_layer)
                     /\ evt' = [seen |-> TRUE, done |-> ~dirsOk, known |-> everParsed,
                                n |-> last_layer, dirs |-> dirsOk, log |-> <<>>]
                     /\ rdPc' = IF dirsOk THEN "cap1" ELSE "iter"
    ELSE UNCHANGED <<last_layer, everParsed, rdPc, current_layer, camLog, evt>>

\* variant: check_for_updates reads the file from its beginning
SeekTo_Start(position) == 0

\* "f.seek(self.last_position)": the offset the read starts at
SeekTo(position) == position

\* variant: the offset stored is one past the offset of the file object
Tell_OnePast(position) == position + 1

\* "self.last_position = f.tell()" after the loop: the offset of the file
\* object, which has read the file to its end
Tell(position) == position

\* UnicodeDecodeError raised by a read of the file.
\* _process_existing_log: the handler opens the file again, with utf-8 again,
\* and reads it from the start; a fault raised inside the handler leaves
\* _process_existing_log, monitor() logs it and goes on to _shutdown.
\* check_for_updates: the handler opens the file with latin1 and seeks to
\* last_position; a fault raised inside the handler is logged by the outer
\* "except Exception" and the call returns.
DecodeFault ==
    /\ IF ~fallback
         THEN /\ fallback' = TRUE
              /\ enc' = IF rdWho = "main" THEN "utf-8" ELSE "latin1"
              /\ fpos' = IF rdWho = "main" THEN 0 ELSE SeekTo(last_position)
              /\ buf' = <<>>
              /\ retryAt' = [seen |-> TRUE, proc |-> Len(processed),
                             cam |-> Len(camLog)]
              /\ UNCHANGED <<rdWho, pcMain, lastPoll>>
         ELSE /\ rdWho' = "none"
              /\ buf' = <<>>
              /\ pcMain' = IF rdWho = "main" THEN "shutdown" ELSE pcMain
              /\ lastPoll' = IF rdWho = "obs"
                               THEN [lastPoll EXCEPT !.done = TRUE, !.snapshot = file]
                               ELSE lastPoll
              /\ UNCHANGED <<fallback, enc, fpos, retryAt>>
    /\ UNCHANGED <<last_position, last_layer, everParsed, rdPc, current_layer,
                   camLog, evt, processed>>

\* one step of "for line in f" in which a read of the file returns at most
\* limit tokens: a decode fault, the end of the loop with
\* "self.last_position = f.tell()", a read that completes no line yet, or one
\* iteration with its call of _process_line
ReadUpTo(dirsOk, limit) ==
    /\ rdWho # "none"
    /\ rdPc = "iter"
    /\ LET bytes == IF Refills(buf) THEN ReadChunk(file, fpos, limit) ELSE <<>>
           pos2 == IF Refills(buf) THEN AfterRead(file, fpos, limit) ELSE fpos
           data == buf \o Decode(bytes, enc)
       IN IF Undecodable(bytes, enc)
            THEN DecodeFault
          ELSE IF data = <<>>
            THEN /\ last_position' = Tell(pos2)
                 /\ rdWho' = "none"
                 /\ fpos' = pos2
                 /\ buf' = <<>>
                 /\ pcMain' = IF rdWho = "main" THEN "start_watchdog" ELSE pcMain
                 /\ lastPoll' = IF rdWho = "obs"
                                  THEN [lastPoll EXCEPT !.done = TRUE, !.snapshot = file]
                                  ELSE lastPoll
                 /\ UNCHANGED <<last_layer, everParsed, rdPc, current_layer,
                                camLog, evt, processed, enc, fallback, retryAt>>
          ELSE IF ~HasNL(data) /\ pos2 < Len(file)
            THEN /\ buf' = data
                 /\ fpos' = pos2
                 /\ UNCHANGED <<last_position, last_layer, everParsed, rdWho, rdPc,
                                pcMain, current_layer, camLog, evt, processed,
                                lastPoll, enc, fallback, retryAt>>
            ELSE LET line == NextLine(data) IN
                 /\ buf' = SubSeq(data, Len(line) + 1, Len(data))
                 /\ fpos' = pos2
                 /\ processed' = Append(processed, line)
                 /\ lastPoll' = IF rdWho = "obs"
                                  THEN [lastPoll EXCEPT !.delivered = Append(@, line)]
                                  ELSE lastPoll
                 /\ ProcessLine(line, dirsOk)
                 /\ UNCHANGED <<last_position, rdWho, pcMain, enc, fallback, retryAt>>
    /\ UNCHANGED <<mainFile, pendingExc, exitStatus, observer, pending, logMissing,
                   calls, prevSnap>>
    /\ UNCHANGED <<camVars, envVars>>
    /\ UNCHANGED sdkVars

\* the same step when the whole remainder of the file fits one read
ReadStep(dirsOk) == ReadUpTo(dirsOk, Len(file))

\* variant: every capture_image call works on a device handle of its own
HandleOfCapture_Fresh(handle) == handle + 1

\* self.device in capture_image: the handle _initialize_camera stored
HandleOfCapture(handle) == handle

\* "if hasattr(self, 'buffer') and self.buffer": _cleanup_capture requeues
\* whatever self.buffer holds, also a buffer an earlier call left there
Requeues(buf0, got) == buf0 # 0

\* CameraController.capture_image with _save_image and _cleanup_capture: what
\* the call does to the device and to self.buffer.  o is what the device
\* does; requeueRaises: requeue_buffer raises when it is given a buffer that
\* was requeued before, which skips stop_stream
CaptureImage(o, requeueRaises) ==
    LET started == o # "start_stream_fails"
        got == o \in {"ok", "save_fails"}
        held == IF got THEN buffersGot + 1 ELSE buffer
        raised == Requeues(held, got) /\ ~got /\ requeueRaises
    IN /\ usedDevices' = usedDevices \cup {HandleOfCapture(selectCalls)}
       /\ buffersGot' = IF got THEN buffersGot + 1 ELSE buffersGot
       /\ buffer' = held
       /\ saved' = IF o = "ok" THEN saved + 1 ELSE saved
       /\ requeued' = IF Requeues(held, got) /\ ~raised THEN Append(requeued, held)
                                                       ELSE requeued
       /\ streaming' = IF raised THEN (started \/ streaming) ELSE FALSE

\* variant: the second capture follows the first without the sleep
AfterFirstCapture_NoSleep(ok) == IF ok THEN "cap2" ELSE "iter"

\* where _handle_powder_event goes after the first capture_image call
\* returned ok: on to the capture_delay sleep, or RuntimeError
AfterFirstCapture(ok) == IF ok THEN "sleep" ELSE "iter"

\* first capture of _handle_powder_event; a False return raises RuntimeError,
\* which _process_line catches
FirstCapture(o) ==
    /\ rdWho # "none"
    /\ rdPc = "cap1"
    /\ LET e == CamEntry(PowderDir, current_layer, CaptureImageReturn(o)) IN
       /\ camLog' = Append(camLog, e)
       /\ evt' = [evt EXCEPT !.log = Append(@, e), !.done = (AfterFirstCapture(CaptureImageReturn(o)) = "iter")]
    /\ rdPc' = AfterFirstCapture(CaptureImageReturn(o))
    /\ UNCHANGED <<mainFile, pcMain, pendingExc, exitStatus, observer, pending,
                   rdWho, current_layer, fpos, buf, enc, fallback, processed,
                   everParsed, lastPoll, logMissing, retryAt, calls, prevSnap>>
    /\ UNCHANGED <<camVars, envVars, monVars>>

\* time.sleep(self.capture_delay)
CaptureDelay ==
    /\ rdWho # "none"
    /\ rdPc = "sleep"
    /\ camLog' = Append(camLog, SleepEntry)
    /\ evt' = [evt EXCEPT !.log = Append(@, SleepEntry)]
    /\ rdPc' = "cap2"
    /\ UNCHANGED <<mainFile, pcMain, pendingExc, exitStatus, observer, pending,
                   rdWho, current_layer, fpos, buf, enc, fallback, processed,
                   everParsed, lastPoll, logMissing, retryAt, calls, prevSnap>>
    /\ UNCHANGED <<camVars, envVars, monVars>>
    /\ UNCHANGED sdkVars

\* variant: the RuntimeError of a failed second capture leaves _process_line
AfterSecondCapture_Raise(ok) == IF ok THEN "iter" ELSE "raise"

\* where the reader goes after the second capture_image call returned ok:
\* back to the loop over the lines, also when RuntimeError was raised, which
\* _process_line catches and logs
AfterSecondCapture(ok) == "iter"

\* second capture of _handle_powder_event
SecondCapture(o) ==
    /\ rdWho # "none"
    /\ rdPc = "cap2"
    /\ LET e == CamEntry(StartDir, current_layer, CaptureImageReturn(o)) IN
       /\ camLog' = Append(camLog, e)
       /\ evt' = [evt EXCEPT !.log = Append(@, e), !.done = TRUE]
    /\ rdPc' = AfterSecondCapture(CaptureImageReturn(o))
    /\ UNCHANGED <<mainFile, pcMain, pendingExc, exitStatus, observer, pending,
                   rdWho, current_layer, fpos, buf, enc, fallback, processed,
                   everParsed, lastPoll, logMissing, retryAt, calls, prevSnap>>
    /\ UNCHANGED <<camVars, envVars, monVars>>

\* ------------------------------------------------- main thread
\* the keyword arguments of the LogMonitor(...) call are parameters of
\* LogMonitor.__init__ (log_path, camera, save_root, part_name, capture_delay,
\* project_name); the call in src/src/main.py also passes encoding
CtorAccepts(f) == f = "src/main.py"

\* monitor = LogMonitor(...) inside the with block
ConstructMonitor ==
    /\ pcMain = "ctor_monitor"
    /\ IF CtorAccepts(mainFile)
         THEN /\ pcMain' = "existing"
              /\ last_position' = 0
              /\ last_layer' = -1
              /\ observer' = "none"
              /\ UNCHANGED pendingExc
         ELSE /\ pcMain' = "exit_cleanup"
              /\ pendingExc' = "TypeError"
              /\ UNCHANGED <<last_position, last_layer, observer>>
    /\ UNCHANGED <<mainFile, exitStatus, pending>>
    /\ UNCHANGED <<camVars, envVars, rdVars, histVars>>
    /\ UNCHANGED sdkVars

\* monitor(): _process_existing_log opens the file.  FileNotFoundError is
\* logged and re-raised; monitor() catches it, logs it and goes to _shutdown.
ExistingOpen ==
    /\ pcMain = "existing"
    /\ IF fileExists
         THEN /\ pcMain' = "existing_read"
              /\ rdWho' = "main"
              /\ rdPc' = "iter"
              /\ fpos' = 0
              /\ buf' = <<>>
              /\ enc' = "utf-8"
              /\ fallback' = FALSE
         ELSE /\ pcMain' = "shutdown"
              /\ UNCHANGED <<rdWho, rdPc, fpos, buf, enc, fallback>>
    /\ logMissing' = ~fileExists
    /\ UNCHANGED <<mainFile, pendingExc, exitStatus, observer, pending, current_layer>>
    /\ UNCHANGED <<processed, camLog, evt, everParsed, lastPoll, retryAt, calls, prevSnap>>
    /\ UNCHANGED <<camVars, envVars, monVars>>
    /\ UNCHANGED sdkVars

\* _start_watchdog
StartWatchdog ==
    /\ pcMain = "start_watchdog"
    /\ observer' = "running"
    /\ pcMain' = "keep_alive"
    /\ UNCHANGED <<mainFile, pendingExc, exitStatus, pending>>
    /\ UNCHANGED <<camVars, envVars, monVars, rdVars, histVars>>
    /\ UNCHANGED sdkVars

\* a shutdown signal (KeyboardInterrupt) during _keep_alive: not an Exception,
\* so only the finally clause of monitor() runs
Interrupt ==
    /\ pcMain = "keep_alive"
    /\ pendingExc' = "KeyboardInterrupt"
    /\ pcMain' = "shutdown"
    /\ UNCHANGED <<mainFile, exitStatus, observer, pending>>
    /\ UNCHANGED <<camVars, envVars, monVars, rdVars, histVars>>
    /\ UNCHANGED sdkVars

\* _shutdown: "if self.observer: self.observer.stop()"
ShutdownStop ==
    /\ pcMain = "shutdown"
    /\ IF observer = "running"
         THEN /\ observer' = "stopped"
              /\ pcMain' = "shutdown_join"
         ELSE /\ pcMain' = "shutdown_cleanup"
              /\ UNCHANGED observer
    /\ UNCHANGED <<mainFile, pendingExc, exitStatus, pending>>
    /\ UNCHANGED <<camVars, envVars, monVars, rdVars, histVars>>
    /\ UNCHANGED sdkVars

\* variant: join() does not wait for the callback that is running
JoinReturns_AtOnce == TRUE

\* observer.join() returns once the observer thread has ended, which it does
\* after the callback it was running has returned
JoinReturns == rdWho # "obs"

\* _shutdown: self.observer.join(); events still queued are not delivered
ShutdownJoin ==
    /\ pcMain = "shutdown_join"
    /\ JoinReturns
    /\ observer' = "joined"
    /\ pending' = 0
    /\ pcMain' = "shutdown_cleanup"
    /\ UNCHANGED <<mainFile, pendingExc, exitStatus>>
    /\ UNCHANGED <<camVars, envVars, monVars, rdVars, histVars>>
    /\ UNCHANGED sdkVars

\* _shutdown: self.camera.cleanup()
ShutdownCleanup(stopRaises) ==
    /\ pcMain = "shutdown_cleanup"
    /\ CleanupEffect(stopRaises)
    /\ pcMain' = "exit_cleanup"
    /\ UNCHANGED <<mainFile, pendingExc, exitStatus, observer, pending>>
    /\ UNCHANGED <<envVars, monVars, rdVars, histVars>>

\* the status main() ends with: return 0 after the with block, return 1 from
\* the except clauses; KeyboardInterrupt is caught by none of them
StatusOf(exc) ==
    IF exc = "none" THEN ExitOk
    ELSE IF exc = "KeyboardInterrupt" THEN ExitInterrupted
    ELSE ExitError

\* the with block is left: __exit__ calls cleanup(), then main() ends
ExitCleanup(stopRaises) ==
    /\ pcMain = "exit_cleanup"
    /\ CleanupEffect(stopRaises)
    /\ pcMain' = "done"
    /\ exitStatus' = StatusOf(pendingExc)
    /\ UNCHANGED <<mainFile, pendingExc, observer, pending>>
    /\ UNCHANGED <<envVars, monVars, rdVars, histVars>>

\* ------------------------------------------------- observer thread
\* variant: an event is delivered while the callback of another is running
ObserverIdle_Always == TRUE

\* the observer thread takes the next event from its queue when the handler
\* of the previous one has returned
ObserverIdle == rdWho = "none"

\* check_for_updates is entered on the observer thread: it opens the file and
\* seeks to last_position; an exception (the file is missing) is caught and
\* logged by check_for_updates.  The observer thread delivers one event at a
\* time.
Dispatch ==
    /\ observer = "running"
    /\ pending > 0
    /\ ObserverIdle
    /\ pending' = pending - 1
    /\ IF fileExists
         THEN /\ rdWho' = "obs"
              /\ rdPc' = "iter"
              /\ fpos' = SeekTo(last_position)
              /\ buf' = <<>>
              /\ enc' = "utf-8"
              /\ fallback' = FALSE
              /\ lastPoll' = [seen |-> TRUE, done |-> FALSE,
                              trunc |-> Len(file) < last_position,
                              missing |-> FALSE,
                              start |-> last_position,
                              delivered |-> <<>>, snapshot |-> <<>>]
         ELSE /\ lastPoll' = [seen |-> TRUE, done |-> TRUE, trunc |-> FALSE,
                              missing |-> TRUE,
                              start |-> last_position,
                              delivered |-> <<>>, snapshot |-> <<>>]
              /\ UNCHANGED <<rdWho, rdPc, fpos, buf, enc, fallback>>
    /\ UNCHANGED <<mainFile, pcMain, pendingExc, exitStatus, observer,
                   current_layer, processed, camLog, evt, everParsed, logMissing,
                   retryAt>>
    /\ UNCHANGED <<camVars, envVars, monVars>>
    /\ UNCHANGED sdkVars

\* LogFileHandler.on_modified for an event of the log file: one call of the
\* callback, which is check_for_updates
OnModified ==
    /\ Dispatch
    /\ calls' = calls + 1
    /\ UNCHANGED prevSnap

\* ------------------------------------------------- the printer controller
\* The controller acts while monitor() is between its start and the start of
\* _shutdown.  A change of the file made during _shutdown has the effect of
\* the same change made just before _shutdown began: the steps of _shutdown
\* do not read the file, and a notification raised after observer.stop() is
\* never dispatched.
Monitoring ==
    pcMain \in {"existing", "existing_read", "start_watchdog", "keep_alive",
                "poll_open", "poll_loop"}

\* a modification of the log file raises a notification once the observer runs
Notified == IF observer = "running" /\ pending < MaxPending THEN pending + 1 ELSE pending

\* where the controller may split the write of a line: nowhere, or two
\* tokens before its end
SplitPoints(line) == {k \in {Len(line) - 2, Len(line)} : k >= 1}

\* the first k tokens of a line are written
WriteLine(line, k) ==
    /\ Monitoring
    /\ fileExists
    /\ wpend = <<>>
    /\ nWritten < MaxLines
    /\ file' = file \o SubSeq(line, 1, k)
    /\ wpend' = SubSeq(line, k + 1, Len(line))
    /\ nWritten' = nWritten + 1
    /\ pending' = Notified
    /\ UNCHANGED <<mainFile, pcMain, pendingExc, exitStatus, observer,
                   fileExists, nTrunc>>
    /\ UNCHANGED <<camVars, monVars, rdVars, histVars>>
    /\ UNCHANGED sdkVars

\* the remainder of the line is written
FlushWrite ==
    /\ Monitoring
    /\ fileExists
    /\ wpend # <<>>
    /\ file' = file \o wpend
    /\ wpend' = <<>>
    /\ pending' = Notified
    /\ UNCHANGED <<mainFile, pcMain, pendingExc, exitStatus, observer,
                   fileExists, nWritten, nTrunc>>
    /\ UNCHANGED <<camVars, monVars, rdVars, histVars>>
    /\ UNCHANGED sdkVars

\* the log file is truncated to nothing
Truncate ==
    /\ Monitoring
    /\ fileExists
    /\ wpend = <<>>
    /\ file # <<>>
    /\ nTrunc < MaxTruncations
    /\ file' = <<>>
    /\ nTrunc' = nTrunc + 1
    /\ pending' = Notified
    /\ UNCHANGED <<mainFile, pcMain, pendingExc, exitStatus, observer,
                   fileExists, wpend, nWritten>>
    /\ UNCHANGED <<camVars, monVars, rdVars, histVars>>
    /\ UNCHANGED sdkVars

\* the log file is removed (on_modified is not called for a removal)
DeleteLog ==
    /\ Monitoring
    /\ fileExists
    /\ wpend = <<>>
    /\ fileExists' = FALSE
    /\ UNCHANGED <<mainFile, pcMain, pendingExc, exitStatus, observer, pending,
                   file, wpend, nWritten, nTrunc>>
    /\ UNCHANGED <<camVars, monVars, rdVars, histVars>>
    /\ UNCHANGED sdkVars

\* ------------------------------------------------- specification
Next ==
    \/ \E found \in BOOLEAN : CreateDeviceAttempt(found)
    \/ CreateDeviceExhausted
    \/ SelectDevice
    \/ ConstructMonitor
    \/ ExistingOpen
    \/ \E dirsOk \in BOOLEAN : ReadStep(dirsOk)
    \/ \E o \in CaptureOutcomes : FirstCapture(o) /\ UNCHANGED sdkVars
    \/ CaptureDelay
    \/ \E o \in CaptureOutcomes : SecondCapture(o) /\ UNCHANGED sdkVars
    \/ StartWatchdog
    \/ Interrupt
    \/ ShutdownStop
    \/ ShutdownJoin
    \/ \E stopRaises \in BOOLEAN : ShutdownCleanup(stopRaises)
    \/ \E stopRaises \in BOOLEAN : ExitCleanup(stopRaises)
    \/ Dispatch /\ UNCHANGED <<calls, prevSnap>>
    \/ \E line \in LogLines : \E k \in SplitPoints(line) : WriteLine(line, k)
    \/ FlushWrite
    \/ Truncate
    \/ DeleteLog

Spec == Init /\ [][Next]_vars

\* ------------------------------------------------- the monitoring session
\* bytes that are not valid UTF-8 inside a line
BadBytesLine == <<"t", BadBytes, NL>>
\* the lines the printer controller writes during the session; the log is
\* appended to and neither truncated nor removed
WatchLines == {LayerLine("5"), PowderLine, BadBytesLine}

\* monitor() is called by src/main.py with the device found by the first
\* create_device call; f is the log file at that time
MonitorStart(f) ==
    /\ mainFile = "src/main.py"
    /\ pcMain = "existing"
    /\ pendingExc = "none"
    /\ exitStatus = Running
    /\ retry_attempts = RetryAttempts
    /\ attempt = 1
    /\ createResults = <<TRUE>>
    /\ warnings = 0
    /\ countdowns = 0
    /\ selectCalls = 1
    /\ device = TRUE
    /\ destroyCalls = 0
    /\ opsAfterRelease = 0
    /\ cleanupCalls = 0
    /\ file = f
    /\ fileExists = TRUE
    /\ wpend = <<>>
    /\ nWritten = 0
    /\ nTrunc = 0
    /\ last_position = 0
    /\ last_layer = -1
    /\ observer = "none"
    /\ pending = 0
    /\ rdWho = "none"
    /\ rdPc = "iter"
    /\ current_layer = 0
    /\ fpos = 0
    /\ buf = <<>>
    /\ enc = "utf-8"
    /\ fallback = FALSE
    /\ processed = <<>>
    /\ camLog = <<>>
    /\ evt = NoEvt
    /\ everParsed = FALSE
    /\ lastPoll = NoPoll
    /\ logMissing = FALSE
    /\ retryAt = NoRetry
    /\ calls = 0
    /\ prevSnap = <<>>
    /\ buffer = 0
    /\ buffersGot = 0
    /\ requeued = <<>>
    /\ streaming = FALSE
    /\ saved = 0
    /\ usedDevices = {}

\* the session starts with an empty log
InitWatch == MonitorStart(<<>>)

NextWatch ==
    \/ ExistingOpen
    \/ \E dirsOk \in BOOLEAN : ReadStep(dirsOk)
    \/ \E o \in CaptureOutcomes : FirstCapture(o) /\ UNCHANGED sdkVars
    \/ CaptureDelay
    \/ \E o \in CaptureOutcomes : SecondCapture(o) /\ UNCHANGED sdkVars
    \/ StartWatchdog
    \/ Interrupt
    \/ ShutdownStop
    \/ ShutdownJoin
    \/ \E stopRaises \in BOOLEAN : ShutdownCleanup(stopRaises)
    \/ \E stopRaises \in BOOLEAN : ExitCleanup(stopRaises)
    \/ OnModified
    \/ \E line \in WatchLines : \E k \in SplitPoints(line) : WriteLine(line, k)
    \/ FlushWrite

SpecWatch == InitWatch /\ [][NextWatch]_vars

\* ------------------------------------------------- the catch-up read
MaxInitialLines == 3   \* lines the log holds when monitor() starts

\* layer lines whose layer field is no integer, or is missing
BadLayerLine == <<"t", "w", "x", LayerToken, NL>>
ShortLayerLine == <<"t", LayerToken, NL>>
\* a line with both markers
BothLine == <<"t", "w", "5", LayerToken, PowderToken, NL>>

CatchUpLines ==
    {LayerLine("5"), LayerLine("7"), PowderLine, BadLayerLine, ShortLayerLine,
     BothLine, BadBytesLine}
InitialFiles ==
    {Concat(ls) : ls \in UNION {[1..n -> CatchUpLines] : n \in 0..MaxInitialLines}}

\* how much one read of the file returns: the buffer of the file object ends
\* somewhere in the file; in the model, at the end of any line not yet read
ChunkLimits(f, pos) ==
    {k \in 1..(Len(f) - pos) : f[pos + k] = NL} \cup {Len(f)}

InitCatchUp == \E f \in InitialFiles : MonitorStart(f)

\* _process_existing_log on a log that does not change meanwhile, with the
\* target directories in place, then _start_watchdog or _shutdown
NextCatchUp ==
    \/ ExistingOpen
    \/ \E limit \in ChunkLimits(file, fpos) : ReadUpTo(TRUE, limit)
    \/ \E o \in CaptureOutcomes : FirstCapture(o) /\ UNCHANGED sdkVars
    \/ CaptureDelay
    \/ \E o \in CaptureOutcomes : SecondCapture(o) /\ UNCHANGED sdkVars
    \/ StartWatchdog
    \/ ShutdownStop
    \/ \E stopRaises \in BOOLEAN : ShutdownCleanup(stopRaises)
    \/ \E stopRaises \in BOOLEAN : ExitCleanup(stopRaises)

SpecCatchUp == InitCatchUp /\ [][NextCatchUp]_vars

\* ------------------------------------------------- notifications
\* another file of the watched directory whose name ends in ".log" is
\* modified: on_modified calls the callback although the log is unchanged
OtherLogModified ==
    /\ Monitoring
    /\ observer = "running"
    /\ pending < MaxPending
    /\ pending' = Notified
    /\ UNCHANGED <<mainFile, pcMain, pendingExc, exitStatus, observer>>
    /\ UNCHANGED <<camVars, envVars, monVars, rdVars, histVars, sdkVars>>

\* the file as the previous read left it: the file when the previous
\* check_for_updates call ended or, before the first call, the text the
\* initial read consumed
PreviousFile ==
    IF lastPoll.seen THEN lastPoll.snapshot ELSE SubSeq(file, 1, last_position)

\* on_modified calls check_for_updates
CheckForUpdatesBegins ==
    /\ Dispatch
    /\ prevSnap' = PreviousFile
    /\ UNCHANGED calls

\* a session on a log that is appended to, with notifications for the log
\* and for other files of its directory
NextNotify ==
    \/ ExistingOpen
    \/ \E dirsOk \in BOOLEAN : ReadStep(dirsOk)
    \/ \E o \in CaptureOutcomes : FirstCapture(o) /\ UNCHANGED sdkVars
    \/ CaptureDelay
    \/ \E o \in CaptureOutcomes : SecondCapture(o) /\ UNCHANGED sdkVars
    \/ StartWatchdog
    \/ CheckForUpdatesBegins
    \/ OtherLogModified
    \/ \E line \in WatchLines : \E k \in SplitPoints(line) : WriteLine(line, k)
    \/ FlushWrite

SpecNotify == InitWatch /\ [][NextNotify]_vars

\* ------------------------------------------------- the camera
\* the log monitor() finds holds deposition lines only: each is handled with
\* last_layer = -1 and makes its captures
CameraFiles ==
    {Concat([i \in 1..n |-> PowderLine]) : n \in 0..MaxInitialLines}

InitCamera ==
    /\ mainFile = "src/main.py"
    /\ file \in CameraFiles
    /\ fileExists = TRUE
    /\ Unstarted

\* the program from the construction of the CameraController to the end of
\* main(), on a log that does not change, with what every capture_image call
\* does to the device
NextCamera ==
    \/ \E found \in BOOLEAN : CreateDeviceAttempt(found)
    \/ CreateDeviceExhausted
    \/ SelectDevice
    \/ ConstructMonitor
    \/ ExistingOpen
    \/ ReadStep(TRUE)
    \/ \E o \in CaptureOutcomes : \E requeueRaises \in BOOLEAN :
          FirstCapture(o) /\ CaptureImage(o, requeueRaises)
    \/ CaptureDelay
    \/ \E o \in CaptureOutcomes : \E requeueRaises \in BOOLEAN :
          SecondCapture(o) /\ CaptureImage(o, requeueRaises)
    \/ StartWatchdog
    \/ Interrupt
    \/ ShutdownStop
    \/ ShutdownJoin
    \/ \E stopRaises \in BOOLEAN : ShutdownCleanup(stopRaises)
    \/ \E stopRaises \in BOOLEAN : ExitCleanup(stopRaises)

SpecCamera == InitCamera /\ [][NextCamera]_vars

\* ------------------------------------------------- the polling monitor
\* src/log_monitor.py: main() builds the CameraController and a LogMonitor
\* whose monitor() opens the log, seeks to its end and reads it line by line
\* in a loop on the main thread.  mainFile is "src/log_monitor.py".

\* the lines the printer controller writes while the polling monitor runs
PollLines ==
    {LayerLine("5"), LayerLine("-2"), BadLayerLine, ShortLayerLine, PowderLine,
     OtherLine}

\* "self.last_layer = int(line.split(" ")[2])" raises IndexError or
\* ValueError; _process_line has no handler for it
LayerFieldRaises(line) == Contains(line, LayerToken) /\ ~ParsesLayer(line)

\* last_layer after the first "if" of _process_line
PollLayerAfter(line, layer) ==
    IF Contains(line, LayerToken) /\ ParsesLayer(line) THEN ParsedLayer(line) ELSE layer

\* "if self.last_layer < 0": the deposition event is dropped
NoLayerInformation(layer) == layer < 0

\* _handle_powder_event reaches "self.camera.capture_image(powder_folder,
\* current_layer)": two arguments for a method that requires save_folder,
\* layer and project_name, so the call raises TypeError
CaptureCallRaises(line, layer) ==
    Contains(line, PowderToken) /\ ~NoLayerInformation(layer)

\* monitor = LogMonitor(...) in main() of src/log_monitor.py
ConstructPollingMonitor ==
    /\ pcMain = "ctor_monitor"
    /\ pcMain' = "poll_open"
    /\ last_layer' = -1
    /\ UNCHANGED <<mainFile, pendingExc, exitStatus, observer, pending, last_position>>
    /\ UNCHANGED <<camVars, envVars, rdVars, histVars, sdkVars>>

\* monitor(): open(self.log_path, 'r') and log_file.seek(0, 2);
\* FileNotFoundError is printed and the finally clause runs
PollOpen ==
    /\ pcMain = "poll_open"
    /\ IF fileExists
         THEN /\ pcMain' = "poll_loop"
              /\ fpos' = Len(file)
         ELSE /\ pcMain' = "poll_cleanup"
              /\ UNCHANGED fpos
    /\ logMissing' = ~fileExists
    /\ UNCHANGED <<mainFile, pendingExc, exitStatus, observer, pending>>
    /\ UNCHANGED <<rdWho, rdPc, current_layer, buf, enc, fallback>>
    /\ UNCHANGED <<processed, camLog, evt, everParsed, lastPoll, retryAt, calls,
                   prevSnap>>
    /\ UNCHANGED <<camVars, envVars, monVars, sdkVars>>

\* one iteration of the loop that gets a line: log_file.readline() returns
\* the text up to the next terminator or, without one, up to the end of the
\* file; _process_line(line).  An exception of _process_line is printed by
\* "except Exception" of monitor(), which ends the loop.  (An iteration at
\* the end of the file sleeps and changes nothing.)
PollReadline ==
    /\ pcMain = "poll_loop"
    /\ fpos < Len(file)
    /\ LET line == NextLine(SubSeq(file, fpos + 1, Len(file)))
           layer == PollLayerAfter(line, last_layer)
       IN /\ fpos' = fpos + Len(line)
          /\ processed' = Append(processed, line)
          /\ last_layer' = layer
          /\ everParsed' = (everParsed \/ (Contains(line, LayerToken) /\ ParsesLayer(line)))
          /\ pcMain' = IF LayerFieldRaises(line) \/ CaptureCallRaises(line, layer)
                          THEN "poll_cleanup" ELSE "poll_loop"
    /\ UNCHANGED <<mainFile, pendingExc, exitStatus, observer, pending, last_position>>
    /\ UNCHANGED <<rdWho, rdPc, current_layer, buf, enc, fallback>>
    /\ UNCHANGED <<camLog, evt, lastPoll, logMissing, retryAt, calls, prevSnap>>
    /\ UNCHANGED <<camVars, envVars, sdkVars>>

\* a shutdown signal during the loop: KeyboardInterrupt is not an Exception,
\* only the finally clause runs
PollInterrupt ==
    /\ pcMain = "poll_loop"
    /\ pendingExc' = "KeyboardInterrupt"
    /\ pcMain' = "poll_cleanup"
    /\ UNCHANGED <<mainFile, exitStatus, observer, pending>>
    /\ UNCHANGED <<camVars, envVars, monVars, rdVars, histVars, sdkVars>>

\* "finally: self.camera.cleanup()" of monitor()
PollCleanup(stopRaises) ==
    /\ pcMain = "poll_cleanup"
    /\ CleanupEffect(stopRaises)
    /\ pcMain' = "exit_cleanup"
    /\ UNCHANGED <<mainFile, pendingExc, exitStatus, observer, pending>>
    /\ UNCHANGED <<envVars, monVars, rdVars, histVars>>

InitPolling ==
    /\ mainFile = "src/log_monitor.py"
    /\ file = <<>>
    /\ fileExists \in BOOLEAN
    /\ Unstarted

NextPolling ==
    \/ \E found \in BOOLEAN : CreateDeviceAttempt(found)
    \/ CreateDeviceExhausted
    \/ SelectDevice
    \/ ConstructPollingMonitor
    \/ PollOpen
    \/ PollReadline
    \/ PollInterrupt
    \/ \E stopRaises \in BOOLEAN : PollCleanup(stopRaises)
    \/ \E stopRaises \in BOOLEAN : ExitCleanup(stopRaises)
    \/ \E line \in PollLines : \E k \in SplitPoints(line) : WriteLine(line, k)
    \/ FlushWrite

SpecPolling == InitPolling /\ [][NextPolling]_vars

\* ------------------------------------------------- properties
Captures(log) == SelectSeq(log, LAMBDA e : e.op = "capture")
IsPrefix(a, b) == Len(a) <= Len(b) /\ SubSeq(b, 1, Len(a)) = a
\* the complete lines of a file, in order
RECURSIVE CompleteLines(_)
CompleteLines(f) ==
    IF ~HasNL(f) THEN <<>>
    ELSE <<SubSeq(f, 1, FirstNL(f))>> \o CompleteLines(SubSeq(f, FirstNL(f) + 1, Len(f)))

\* C1: a deposition line handled before any layer line has been parsed
\* makes no capture_image call.
C1_NoCaptureBeforeLayer ==
    (evt.seen /\ ~evt.known) => Captures(evt.log) = <<>>

\* C2 as stated: a deposition line handled after a layer line was parsed
\* makes exactly two capture_image calls whatever each call returns, with the
\* capture_delay sleep between them (taken on events whose layer passes the
\* guard and whose directories were created).
C2_AlwaysTwoCaptures ==
    (evt.done /\ evt.known /\ ~InvalidLayer(evt.n) /\ evt.dirs) =>
        /\ Len(evt.log) = 3
        /\ evt.log[1].op = "capture"
        /\ evt.log[2].op = "sleep"
        /\ evt.log[3].op = "capture"

\* C2 amended: such a deposition line makes exactly two capture_image calls
\* when the first call returns True, whatever the second returns, with the
\* capture_delay sleep between them, and exactly one call when the first
\* returns False.
C2_TwoCapturesUnlessFirstFails ==
    (evt.done /\ evt.known /\ ~InvalidLayer(evt.n) /\ evt.dirs) =>
        /\ Len(evt.log) >= 1
        /\ evt.log[1].op = "capture"
        /\ IF evt.log[1].ok
             THEN /\ Len(evt.log) = 3
                  /\ evt.log[2].op = "sleep"
                  /\ evt.log[3].op = "capture"
             ELSE Len(evt.log) = 1

C2_Witness ==
    /\ evt.done /\ evt.known /\ Len(evt.log) = 3
    /\ evt.log[1].ok /\ ~evt.log[3].ok

\* C3: the capture calls of a deposition line handled when last_layer is n
\* are, in this order, one with directory Otsypka and layer n+1 and one with
\* directory Start and layer n+1 (the sleep lies between them); both are
\* made when the first returns True.
C3_CaptureArguments ==
    evt.seen =>
        /\ Len(evt.log) <= 3
        /\ Len(evt.log) >= 1 =>
              /\ evt.log[1].op = "capture"
              /\ evt.log[1].dir = PowderDir
              /\ evt.log[1].layer = evt.n + 1
        /\ Len(evt.log) >= 2 => evt.log[2].op = "sleep"
        /\ Len(evt.log) = 3 =>
              /\ evt.log[3].op = "capture"
              /\ evt.log[3].dir = StartDir
              /\ evt.log[3].layer = evt.n + 1
        /\ (evt.done /\ Len(evt.log) >= 1 /\ evt.log[1].ok) => Len(evt.log) = 3

C3_Witness ==
    /\ evt.done /\ evt.n = 5 /\ Len(evt.log) = 3
    /\ evt.log[1].layer = 6 /\ evt.log[3].layer = 6
    /\ evt.log[1].dir = PowderDir /\ evt.log[3].dir = StartDir

\* C4: while the file is only appended to, the lines passed to _process_line
\* are the complete lines of the file, each once, in file order.
C4_ProcessedAreTheCompleteLines ==
    nTrunc = 0 => IsPrefix(processed, CompleteLines(file))

\* C5: no text without a line terminator is passed to _process_line, and
\* after a read last_position is the offset just past the last complete line.
C5_NoPartialLineConsumed ==
    /\ \A i \in 1..Len(processed) : processed[i][Len(processed[i])] = NL
    /\ (nTrunc = 0 /\ rdWho = "none") =>
           last_position = Len(Concat(CompleteLines(SubSeq(file, 1, last_position))))

\* C6: a check_for_updates call that finds the file shorter than
\* last_position processes every line of the file from its beginning.
C6_TruncationRestartsFromZero ==
    (lastPoll.done /\ lastPoll.trunc) => Concat(lastPoll.delivered) = lastPoll.snapshot

\* C7: when main is over after the device was acquired, the device has been
\* destroyed exactly once and no device operation was made after that.
C7_ReleasedExactlyOnce ==
    (pcMain = "done" /\ device) => (destroyCalls = 1 /\ opsAfterRelease = 0)

\* C8: when create_device finds no device on attempts 1..N-1 and finds one on
\* attempt N, exactly N attempts are made, N-1 retry warnings are logged, each
\* with one countdown, and select_device is called once and no more.
C8_RetriesUntilFound ==
    \A N \in 1..retry_attempts :
        (/\ Len(createResults) >= N
         /\ createResults[N]
         /\ \A i \in 1..(N - 1) : ~createResults[i]) =>
            /\ Len(createResults) = N
            /\ attempt = N
            /\ warnings = N - 1
            /\ countdowns = N - 1
            /\ selectCalls = IF pcMain = "select" THEN 0 ELSE 1

C8_Witness ==
    /\ device /\ pcMain = "keep_alive"
    /\ Len(createResults) = 2 /\ warnings = 1 /\ selectCalls = 1

\* C9: when no attempt finds a device, no line is processed and no capture
\* is made, and main ends after exactly retry_attempts attempts with the
\* RuntimeError of the constructor and a non-zero status.
C9_NoDeviceIsFatal ==
    (\A i \in 1..Len(createResults) : ~createResults[i]) =>
        /\ processed = <<>>
        /\ camLog = <<>>
        /\ ~device
        /\ Len(createResults) <= retry_attempts
        /\ pcMain \in {"init_camera", "done"}
        /\ pcMain = "done" =>
              /\ Len(createResults) = retry_attempts
              /\ pendingExc = "RuntimeError"
              /\ exitStatus = ExitError

C9_Witness ==
    /\ pcMain = "done" /\ ~device
    /\ Len(createResults) = 2 /\ exitStatus = ExitError

\* C10: when the initial read of monitor() finds no log file, main ends with
\* the device destroyed and a non-zero status.
C10_MissingLogExitsNonZero ==
    (logMissing /\ pcMain = "done") => (destroyCalls >= 1 /\ exitStatus # ExitOk)

\* C11: once a check_for_updates call has found the log file missing, the
\* session is being ended: the main thread has left _keep_alive and the
\* observer is no longer running.
C11_MissingLogPollEndsSession ==
    (lastPoll.seen /\ lastPoll.missing) =>
        (pcMain # "keep_alive" /\ observer # "running")

\* a step that makes a capture_image call which returns False
FailedCaptureStep ==
    /\ Len(camLog') = Len(camLog) + 1
    /\ camLog'[Len(camLog')].op = "capture"
    /\ ~camLog'[Len(camLog')].ok
HasFailedCapture == \E i \in 1..Len(camLog) : camLog[i].op = "capture" /\ ~camLog[i].ok

\* C12: a capture_image call that returns False sends the reader back to the
\* loop over the lines of the same read, with the text still to be read
\* untouched; it raises nothing in the main thread, leaves the observer as it
\* is and releases no device.  When a poll that made a failed capture is over
\* (in a file that was never truncated), last_position is the end of the
\* file the poll read.
C12_FailedCaptureKeepsSession ==
    /\ [][FailedCaptureStep =>
            /\ rdPc' = "iter"
            /\ rdWho' = rdWho
            /\ buf' = buf /\ fpos' = fpos
            /\ pcMain' = pcMain /\ pendingExc' = pendingExc
            /\ observer' = observer /\ pending' = pending
            /\ destroyCalls' = destroyCalls /\ cleanupCalls' = cleanupCalls]_vars
    /\ []((HasFailedCapture /\ lastPoll.done /\ ~lastPoll.missing
            /\ rdWho = "none" /\ nTrunc = 0)
           => last_position = Len(lastPoll.snapshot))

\* a poll made a failed capture for its first line and went on to parse the
\* layer line that followed it
C12_Witness ==
    /\ lastPoll.done /\ Len(lastPoll.delivered) = 2
    /\ LineKind(lastPoll.delivered[1]) = "powder"
    /\ HasFailedCapture
    /\ lastPoll.delivered[2] = LayerLine("5") /\ last_layer = 5
    /\ last_position = Len(file)
    /\ observer = "running" /\ destroyCalls = 0

\* the line a step passes to _process_line (<<>> when the step passes none)
LineOfStep ==
    IF Len(processed') = Len(processed) + 1 THEN processed'[Len(processed')] ELSE <<>>
\* a layer line whose layer field is missing or is no integer
Malformed(line) == Contains(line, LayerToken) /\ ~ParsesLayer(line)

\* C13: the step that passes a layer line with a missing or non-integer layer
\* field to _process_line changes neither last_layer nor the capture log,
\* starts no capture, raises nothing in the main thread and leaves the reader
\* in the loop over the lines.
C13_MalformedLayerLineDropped ==
    [][Malformed(LineOfStep) =>
          /\ last_layer' = last_layer
          /\ camLog' = camLog /\ evt' = evt
          /\ rdPc' = "iter" /\ rdWho' = rdWho
          /\ pcMain' = pcMain /\ pendingExc' = pendingExc
          /\ destroyCalls' = destroyCalls]_vars

\* layer 5 was parsed, then a line with a non-integer field and a line
\* with no field were dropped, and the read went on to its end
C13_Witness ==
    /\ processed = <<LayerLine("5"), BadLayerLine, ShortLayerLine>>
    /\ last_layer = 5 /\ camLog = <<>>
    /\ rdWho = "none" /\ pcMain = "start_watchdog" /\ last_position = Len(file)

Ending == pcMain \in {"shutdown", "shutdown_join", "shutdown_cleanup", "exit_cleanup", "done"}

\* C14: after a read raised UnicodeDecodeError, the read that replaces it
\* decodes with latin1 and the session is not ended by the fault: the main
\* thread goes to _shutdown only on the shutdown signal.
C14_DecodeFaultIsRecoverable ==
    retryAt.seen =>
        /\ (fallback /\ rdWho # "none") => enc = "latin1"
        /\ Ending => pendingExc = "KeyboardInterrupt"

\* the lines and the capture_image calls of the read that faulted, and of the
\* read from offset 0 that replaced it
FirstPassLines == SubSeq(processed, 1, retryAt.proc)
SecondPassLines == SubSeq(processed, retryAt.proc + 1, Len(processed))
FirstPassCaptures == Captures(SubSeq(camLog, 1, retryAt.cam))
SecondPassCaptures == Captures(SubSeq(camLog, retryAt.cam + 1, Len(camLog)))

\* C15: when _process_existing_log has read the same lines of the unchanged
\* file from offset 0 twice (the read that faulted, then the read that
\* replaced it) and every capture_image call returned True, the two reads
\* made the same capture_image calls: same directories, same layers, same
\* order.
C15_SameEventsWhenReadTwice ==
    (/\ retryAt.seen /\ rdWho = "none"
     /\ FirstPassLines = SecondPassLines
     /\ \A i \in 1..Len(camLog) : camLog[i].ok) =>
        FirstPassCaptures = SecondPassCaptures

\* a step that passes a line with both markers to _process_line
BothMarkers(line) == Contains(line, LayerToken) /\ Contains(line, PowderToken)

\* C20: the step that passes a line with both markers to _process_line sets
\* last_layer to the layer of the line (leaves it alone when the field does
\* not parse) and handles no deposition event: no capture is made or begun.
C20_LayerMarkerHasPriority ==
    [][BothMarkers(LineOfStep) =>
          /\ last_layer' = LayerAfter(LineOfStep, last_layer)
          /\ camLog' = camLog /\ evt' = evt
          /\ rdPc' = "iter"]_vars

\* the line with both markers set layer 5 and made no capture
C20_Witness ==
    /\ processed = <<BothLine>>
    /\ last_layer = 5 /\ camLog = <<>> /\ ~evt.seen
    /\ rdWho = "none" /\ pcMain = "start_watchdog"

\* C16: while the printer controller has written a single line (in one write
\* or in two), on_modified has called check_for_updates at most once.
C16_BurstGivesOnePoll ==
    (nWritten <= 1 /\ nTrunc = 0) => calls <= 1

\* C17: no step of the observer thread (the start of a check_for_updates
\* call and every step of the read it makes) changes last_position or
\* last_layer or makes a capture_image call.
C17_ObserverThreadOnlyEnqueues ==
    [][(rdWho = "obs" \/ rdWho' = "obs") =>
          /\ last_position' = last_position
          /\ last_layer' = last_layer
          /\ camLog' = camLog]_vars

C19_ShutdownOrder ==
    /\ [](destroyCalls >= 1 =>
             (observer \in {"joined", "none"} /\ rdWho = "none" /\ pending = 0))
    /\ [][destroyCalls >= 1 =>
             (camLog' = camLog /\ processed' = processed /\ calls' = calls)]_vars

\* the main thread waits in observer.join() while the observer thread is in
\* the capture_delay sleep of a poll; the device is not released yet
C19_Witness ==
    /\ pcMain = "shutdown_join" /\ observer = "stopped"
    /\ rdWho = "obs" /\ rdPc = "sleep"
    /\ destroyCalls = 0

\* the layers of the layer lines parsed since the latest deposition line of
\* ls, in order
RECURSIVE BurstLayers(_)
BurstLayers(ls) ==
    IF ls = <<>> THEN <<>>
    ELSE LET line == ls[Len(ls)]
             before == SubSeq(ls, 1, Len(ls) - 1)
         IN IF LineKind(line) = "powder" THEN <<>>
            ELSE IF LineKind(line) = "layer" /\ ParsesLayer(line)
              THEN Append(BurstLayers(before), ParsedLayer(line))
            ELSE BurstLayers(before)

\* C21: the step that passes a layer line that parses to _process_line sets
\* last_layer to the layer of the line, whatever layer was known, and makes
\* or begins no capture; the step that passes a deposition line after one or
\* more such layer lines handles it with the layer of the latest of them:
\* when that layer passes the guard and the directories exist, the first
\* capture is begun for that layer plus one; and every capture_image call of
\* a deposition event is for the layer it was handled with, plus one.
C21_LatestLayerWins ==
    /\ [][(LineKind(LineOfStep) = "layer" /\ ParsesLayer(LineOfStep)) =>
              /\ last_layer' = ParsedLayer(LineOfStep)
              /\ camLog' = camLog /\ evt' = evt
              /\ rdPc' = "iter"]_vars
    /\ [][(LineKind(LineOfStep) = "powder" /\ BurstLayers(processed) # <<>>) =>
              LET n == BurstLayers(processed)[Len(BurstLayers(processed))] IN
              /\ last_layer = n /\ last_layer' = n
              /\ evt'.n = n /\ camLog' = camLog
              /\ (~InvalidLayer(n) /\ evt'.dirs) =>
                     (rdPc' = "cap1" /\ current_layer' = n + 1)]_vars
    /\ [](\A i \in 1..Len(evt.log) :
             evt.log[i].op = "capture" => evt.log[i].layer = evt.n + 1)

\* layers 5 and 7 were parsed one after the other, and the deposition
\* line that followed made its two captures for layer 8 and no other
C21_Witness ==
    /\ processed = <<LayerLine("5"), LayerLine("7"), PowderLine>>
    /\ evt.done /\ evt.n = 7
    /\ Len(camLog) = 3
    /\ camLog[1].layer = 8 /\ camLog[3].layer = 8

\* C22: the initial read runs before the observer exists, and once it is over
\* every line the file held has been passed to _process_line and
\* last_position is the end of the file.
C22_FirstReadIsFull ==
    /\ pcMain \in {"existing", "existing_read"} => observer = "none"
    /\ (~logMissing /\ pcMain \notin {"existing", "existing_read"}) =>
           /\ \A i \in 1..Len(CompleteLines(file)) :
                  \E j \in 1..Len(processed) : processed[j] = CompleteLines(file)[i]
           /\ last_position = Len(file)

\* C23: once _initialize_camera has stored the device, no step calls
\* system.create_device or system.select_device or assigns self.device again;
\* select_device is called once at most, and every capture_image call uses
\* the handle that call returned.
C23_SingleDeviceHandle ==
    /\ [][device => /\ createResults' = createResults
                    /\ selectCalls' = selectCalls
                    /\ device' = device]_vars
    /\ [](/\ selectCalls <= 1
          /\ usedDevices \subseteq {selectCalls}
          /\ Captures(camLog) # <<>> => (device /\ usedDevices = {1}))

\* the device was found at the second attempt; four capture_image calls,
\* some returning True and some False, all used that one handle
C23_Witness ==
    /\ Len(createResults) = 2 /\ selectCalls = 1
    /\ Len(Captures(camLog)) >= 4
    /\ \E i \in 1..Len(camLog) : camLog[i].op = "capture" /\ camLog[i].ok
    /\ HasFailedCapture
    /\ usedDevices = {1}

\* C24: from the return of the first capture_image call of a deposition
\* event to the return of its second, no line is passed to _process_line, no
\* check_for_updates call begins and the event stays with the thread that
\* handles it; the only entries the capture log gains are the capture_delay
\* sleep and the second capture of that event, in the Start directory and for
\* the event's layer, after which the loop over the lines goes on.
C24_NothingBetweenTheCaptures ==
    [][(rdPc = "sleep" \/ rdPc = "cap2") =>
          (/\ processed' = processed
           /\ calls' = calls
           /\ rdWho' = rdWho
           /\ camLog' # camLog =>
                 \/ rdPc = "sleep" /\ camLog' = Append(camLog, SleepEntry) /\ rdPc' = "cap2"
                 \/ /\ rdPc = "cap2" /\ rdPc' = "iter"
                    /\ Len(camLog') = Len(camLog) + 1
                    /\ SubSeq(camLog', 1, Len(camLog)) = camLog
                    /\ camLog'[Len(camLog')].op = "capture"
                    /\ camLog'[Len(camLog')].dir = StartDir
                    /\ camLog'[Len(camLog')].layer = current_layer)]_vars

\* a poll is about to make its second capture; meanwhile a complete line was
\* appended and its notification is queued, and the line is not processed
C24_Witness ==
    /\ rdWho = "obs" /\ rdPc = "cap2"
    /\ pending = 1 /\ wpend = <<>>
    /\ Len(CompleteLines(file)) = Len(processed) + 1
    /\ Len(file) > fpos

\* C25: the capture_image calls that returned True are as many as the
\* images Writer.save has written: no call returns True without its image.
C25_TrueMeansSaved ==
    Len(SelectSeq(Captures(camLog), LAMBDA e : e.ok)) = saved

\* C26: no step of the handling of a deposition line (the step that passes
\* the line to _process_line, the captures, the sleep) changes last_layer;
\* as long as no layer line has been parsed since the latest deposition
\* line, last_layer is the layer that line was handled with; and a
\* deposition line whose layer passes the guard begins its first capture for
\* last_layer + 1, whether or not a deposition line was handled before it.
C26_DepositionKeepsLayer ==
    /\ [][(LineKind(LineOfStep) = "powder" \/ rdPc # "iter") =>
              last_layer' = last_layer]_vars
    /\ []((evt.seen /\ BurstLayers(processed) = <<>>) => last_layer = evt.n)
    /\ [][(LineKind(LineOfStep) = "powder" /\ ~InvalidLayer(last_layer) /\ evt'.dirs) =>
              (rdPc' = "cap1" /\ current_layer' = last_layer + 1)]_vars

\* layer 5, then two deposition lines: the first made its two captures for
\* layer 6, the second of them returning False, and the second line made two
\* captures for layer 6 again
C26_Witness ==
    /\ processed = <<LayerLine("5"), PowderLine, PowderLine>>
    /\ Len(camLog) = 6 /\ evt.done /\ last_layer = 5
    /\ ~camLog[3].ok
    /\ \A i \in {1, 3, 4, 6} : camLog[i].op = "capture" /\ camLog[i].layer = 6

\* C27: no step of a check_for_updates call that is taken while the file is
\* as the previous read left it passes a line to _process_line, makes or
\* begins a capture, or changes last_position or last_layer.
C27_SpuriousPollChangesNothing ==
    [][(rdWho = "obs" /\ file = prevSnap /\ file' = file) =>
          /\ processed' = processed
          /\ camLog' = camLog /\ rdPc' = "iter"
          /\ last_position' = last_position
          /\ last_layer' = last_layer]_vars

\* after a layer line and a deposition line were processed, a poll on the
\* unchanged file delivered nothing and left the cursor at the end
C27_Witness ==
    /\ lastPoll.done /\ lastPoll.delivered = <<>>
    /\ prevSnap = file /\ lastPoll.snapshot = file
    /\ processed = <<LayerLine("5"), PowderLine>>
    /\ last_position = Len(file) /\ last_layer = 5
    /\ rdWho = "none"

\* C28: in a session whose log is only appended to, no step lowers
\* last_position, and last_position is never beyond the end of the file.
C28_CursorMonotone ==
    /\ [][last_position' >= last_position]_vars
    /\ [](last_position <= Len(file))

\* a poll that started past the beginning of the file met undecodable
\* bytes, read on with latin1 and moved the cursor to the end of the file
C28_Witness ==
    /\ retryAt.seen /\ lastPoll.done /\ rdWho = "none"
    /\ lastPoll.start > 0
    /\ last_position > lastPoll.start /\ last_position = Len(file)

\* C29: when no capture_image call is executing the device stream is
\* stopped, and the buffers passed to requeue_buffer are the buffers
\* get_buffer has returned, each of them once.
C29_StreamStoppedBuffersRequeuedOnce ==
    /\ ~streaming
    /\ Len(requeued) = buffersGot
    /\ \A i, j \in 1..Len(requeued) : requeued[i] = requeued[j] => i = j

\* the session is at rest: the main thread is in _keep_alive, the observer
\* runs with no event queued and no callback executing, and the printer
\* controller is not in the middle of a line
AtRest ==
    /\ pcMain = "keep_alive" /\ observer = "running"
    /\ pending = 0 /\ rdWho = "none"
    /\ wpend = <<>>

\* C30: when the session is at rest, so that nothing more is processed
\* unless the file is modified again, every complete line of the file has
\* been processed and last_position is the end of the file.
C30_NoLineLeftBehind ==
    AtRest => (Len(processed) >= Len(CompleteLines(file)) /\ last_position = Len(file))

\* C31: in the polling monitor, the step that passes a layer line with a
\* missing or non-integer layer field to _process_line leaves the main
\* thread in the loop of monitor(), changes neither last_layer nor the
\* position in the file beyond the line, and calls no cleanup.
C31_PollingDropsMalformedLine ==
    [][(mainFile = "src/log_monitor.py" /\ Malformed(LineOfStep)) =>
          /\ pcMain' = "poll_loop"
          /\ last_layer' = last_layer
          /\ cleanupCalls' = cleanupCalls]_vars

====
